---- MODULE Spec2Model ----
(***************************************************************************)
(* Model of anda_core/src/model/mod.rs: the Usage ledger and its           *)
(* saturating accumulation, the agent/tool envelopes and their             *)
(* constructors, the serde wire form of the envelopes, the ToolCall        *)
(* record and FunctionDefinition::name_with_prefix.                        *)
(***************************************************************************)
EXTENDS Integers, Sequences, FiniteSets, TLC

(***************************************************************************)
(* u64 is modelled at a reduced width: counters range over 0..U64_MAX and  *)
(* machine addition wraps modulo U64_MAX + 1.                              *)
(***************************************************************************)
U64_MAX == 7

U64 == 0..U64_MAX

Min(x, y) == IF x <= y THEN x ELSE y

\* Option<T>: None is the empty tuple, Some(v) the one-element tuple.
None == <<>>

Some(v) == <<v>>

(***************************************************************************)
(* serde_json wire values.  A JSON value is a tagged tuple; an object      *)
(* carries a function from its keys to JSON values.  serde_json::Value is  *)
(* modelled by the JSON value itself.                                      *)
(***************************************************************************)
JNull == <<"null">>

JStr(s) == <<"str", s>>

JNum(n) == <<"num", n>>

JBool(b) == <<"bool", b>>

JArr(elems) == <<"arr", elems>>

JObj(fields) == <<"obj", fields>>

\* Result<T, serde_json::Error>
Ok(v) == <<"Ok", v>>

Err == <<"Err">>

IsOk(r) == r[1] = "Ok"

\* A field without attribute: always emitted.
Emit(key, j) == key :> j

\* An Option field without attribute: always emitted, None as null.
EmitOption(key, opt, j) == key :> (IF opt = None THEN JNull ELSE j)

\* #[serde(skip_serializing_if = "Option::is_none")]: no key when None.
SkipIfNone(key, opt, j) == IF opt = None THEN <<>> ELSE key :> j

\* Deserialize of a required field: the key must be there, with the type.
HasField(o, key, tag) == key \in DOMAIN o /\ o[key][1] = tag

\* Deserialize of an Option field: a missing key and null both give None.
OptionField(o, key) ==
    IF key \in DOMAIN o /\ o[key][1] # "null" THEN Some(o[key]) ELSE None

\* Option<String>-like fields (String, Principal as text, ThreadId).
OptionStr(o, key) ==
    LET f == OptionField(o, key) IN IF f = None THEN None ELSE Some(f[1][2])

\* Option<Vec<Resource>>: resources are opaque handles, carried as strings.
Ser_Resources(rs) == JArr([i \in 1..Len(rs) |-> JStr(rs[i])])

OptionResources(o, key) ==
    LET f == OptionField(o, key)
    IN  IF f = None THEN None
        ELSE Some([i \in 1..Len(f[1][2]) |-> f[1][2][i][2]])

\* pub const ANONYMOUS: Principal = Principal::anonymous(), in text form.
ANONYMOUS == "2vxsx-fae"

(***************************************************************************)
(* Usage (mod.rs 164-184)                                                  *)
(***************************************************************************)
UsageFields == {"input_tokens", "output_tokens", "requests"}

UsageSet == [input_tokens : U64, output_tokens : U64, requests : U64]

\* #[derive(Default)]: every counter is 0.
Usage_default == [input_tokens |-> 0, output_tokens |-> 0, requests |-> 0]

\* u64 machine addition: the sum reduced to the counter's width.
wrapping_add(x, y) == (x + y) % (U64_MAX + 1)

\* Mutant: the sum wraps instead of clamping.
saturating_add_wraps(x, y) == wrapping_add(x, y)

\* u64::saturating_add: the wrapped sum, replaced by the maximum when the
\* addition overflowed (the wrapped sum fell below an operand).
saturating_add(x, y) ==
    LET s == wrapping_add(x, y)
    IN  IF s < x THEN U64_MAX ELSE s

\* Mutant: a copy-paste slip adds other.input_tokens to output_tokens.
accumulate_crossed_fields(self, other) ==
    [input_tokens  |-> saturating_add(self.input_tokens, other.input_tokens),
     output_tokens |-> saturating_add(self.output_tokens, other.input_tokens),
     requests      |-> saturating_add(self.requests, other.requests)]

\* Mutant: requests counts the merge itself instead of adding other.requests.
accumulate_counts_call(self, other) ==
    [input_tokens  |-> saturating_add(self.input_tokens, other.input_tokens),
     output_tokens |-> saturating_add(self.output_tokens, other.output_tokens),
     requests      |-> saturating_add(self.requests, 1)]

\* Usage::accumulate(&mut self, other): the receiver after the call.
accumulate(self, other) ==
    [input_tokens  |-> saturating_add(self.input_tokens, other.input_tokens),
     output_tokens |-> saturating_add(self.output_tokens, other.output_tokens),
     requests      |-> saturating_add(self.requests, other.requests)]

\* #[derive(Serialize)] for Usage: three required numbers.
Ser_Usage(u) ==
    JObj(Emit("input_tokens", JNum(u.input_tokens))
         @@ Emit("output_tokens", JNum(u.output_tokens))
         @@ Emit("requests", JNum(u.requests)))

\* #[derive(Deserialize)] for Usage.
De_Usage(j) ==
    IF j[1] = "obj" /\ HasField(j[2], "input_tokens", "num")
       /\ HasField(j[2], "output_tokens", "num") /\ HasField(j[2], "requests", "num")
    THEN Ok([input_tokens  |-> j[2].input_tokens[2],
             output_tokens |-> j[2].output_tokens[2],
             requests      |-> j[2].requests[2]])
    ELSE Err

(***************************************************************************)
(* ToolOutput<T> (mod.rs 121-144) and ToolCall (mod.rs 186-201)            *)
(***************************************************************************)
\* Mutant: the constructor books one request for the invocation itself.
ToolOutput_new_counts_invocation(output) ==
    [output |-> output, resources |-> None,
     usage |-> [Usage_default EXCEPT !.requests = 1]]

\* ToolOutput::new(output)
ToolOutput_new(output) ==
    [output |-> output, resources |-> None, usage |-> Usage_default]

\* A ToolCall record as the agent-execution component creates it when the
\* model requests a function call: the result slot is empty.
ToolCall_requested(id, name, args) ==
    [id |-> id, name |-> name, args |-> args, result |-> None]

\* Mutant: the dispatcher drops the payload and leaves the slot empty.
ToolCall_set_result_clears(call, value) == [call EXCEPT !.result = None]

\* The dispatcher fills the result slot of a call.
ToolCall_set_result(call, value) == [call EXCEPT !.result = Some(value)]

\* #[derive(Default)] for ToolCall: empty strings and no result.
ToolCall_default == [id |-> "", name |-> "", args |-> "", result |-> None]

\* #[derive(Serialize)] for ToolCall: result is skipped when None.
Ser_ToolCall(c) ==
    JObj(Emit("id", JStr(c.id))
         @@ Emit("name", JStr(c.name))
         @@ Emit("args", JStr(c.args))
         @@ SkipIfNone("result", c.result, c.result[1]))

\* #[derive(Deserialize)] for ToolCall.
De_ToolCall(j) ==
    IF j[1] = "obj" /\ HasField(j[2], "id", "str") /\ HasField(j[2], "name", "str")
       /\ HasField(j[2], "args", "str")
    THEN Ok([id |-> j[2].id[2], name |-> j[2].name[2], args |-> j[2].args[2],
             result |-> OptionField(j[2], "result")])
    ELSE Err

\* #[derive(Serialize)] for ToolOutput<String>.
Ser_ToolOutput(o) ==
    JObj(Emit("output", JStr(o.output))
         @@ SkipIfNone("resources", o.resources, Ser_Resources(o.resources[1]))
         @@ Emit("usage", Ser_Usage(o.usage)))

\* #[derive(Deserialize)] for ToolOutput<String>: usage is required.
De_ToolOutput(j) ==
    IF j[1] = "obj" /\ HasField(j[2], "output", "str") /\ HasField(j[2], "usage", "obj")
       /\ IsOk(De_Usage(j[2].usage))
    THEN Ok([output |-> j[2].output[2],
             resources |-> OptionResources(j[2], "resources"),
             usage |-> De_Usage(j[2].usage)[2]])
    ELSE Err

(***************************************************************************)
(* RequestMeta (mod.rs 146-162)                                            *)
(***************************************************************************)
\* #[derive(Default)] for RequestMeta.
RequestMeta_default == [engine |-> None, thread |-> None, user |-> None]

\* #[derive(Serialize)] for RequestMeta: thread and user carry
\* skip_serializing_if, engine carries no attribute.
Ser_RequestMeta(m) ==
    JObj(EmitOption("engine", m.engine, JStr(m.engine[1]))
         @@ SkipIfNone("thread", m.thread, JStr(m.thread[1]))
         @@ SkipIfNone("user", m.user, JStr(m.user[1])))

\* #[derive(Deserialize)] for RequestMeta: every field is an Option.
De_RequestMeta(j) ==
    IF j[1] = "obj"
    THEN Ok([engine |-> OptionStr(j[2], "engine"),
             thread |-> OptionStr(j[2], "thread"),
             user   |-> OptionStr(j[2], "user")])
    ELSE Err

\* Option<RequestMeta> inside an envelope.
OptionMeta(o, key) ==
    LET f == OptionField(o, key)
    IN  IF f = None THEN None ELSE Some(De_RequestMeta(f[1])[2])

(***************************************************************************)
(* AgentInput (mod.rs 29-57) and AgentOutput (mod.rs 59-89)                *)
(***************************************************************************)
\* Mutant: the two String arguments are stored swapped.
AgentInput_new_swaps_args(name, prompt) ==
    [name |-> prompt, prompt |-> name, resources |-> None, meta |-> None]

\* AgentInput::new(name, prompt)
AgentInput_new(name, prompt) ==
    [name |-> name, prompt |-> prompt, resources |-> None, meta |-> None]

Ser_AgentInput(a) ==
    JObj(Emit("name", JStr(a.name))
         @@ Emit("prompt", JStr(a.prompt))
         @@ SkipIfNone("resources", a.resources, Ser_Resources(a.resources[1]))
         @@ SkipIfNone("meta", a.meta, Ser_RequestMeta(a.meta[1])))

De_AgentInput(j) ==
    IF j[1] = "obj" /\ HasField(j[2], "name", "str") /\ HasField(j[2], "prompt", "str")
    THEN Ok([name |-> j[2].name[2], prompt |-> j[2].prompt[2],
             resources |-> OptionResources(j[2], "resources"),
             meta |-> OptionMeta(j[2], "meta")])
    ELSE Err

\* #[derive(Default)] for AgentOutput.
AgentOutput_default ==
    [content |-> "", usage |-> Usage_default, thread |-> None,
     failed_reason |-> None, tool_calls |-> None, full_history |-> None,
     resources |-> None]

Ser_ToolCalls(cs) == JArr([i \in 1..Len(cs) |-> Ser_ToolCall(cs[i])])

Ser_AgentOutput(a) ==
    JObj(Emit("content", JStr(a.content))
         @@ Emit("usage", Ser_Usage(a.usage))
         @@ SkipIfNone("thread", a.thread, JStr(a.thread[1]))
         @@ SkipIfNone("failed_reason", a.failed_reason, JStr(a.failed_reason[1]))
         @@ SkipIfNone("tool_calls", a.tool_calls, Ser_ToolCalls(a.tool_calls[1]))
         @@ SkipIfNone("full_history", a.full_history, JArr(a.full_history[1]))
         @@ SkipIfNone("resources", a.resources, Ser_Resources(a.resources[1])))

OptionToolCalls(o, key) ==
    LET f == OptionField(o, key)
    IN  IF f = None THEN None
        ELSE Some([i \in 1..Len(f[1][2]) |-> De_ToolCall(f[1][2][i])[2]])

OptionValues(o, key) ==
    LET f == OptionField(o, key) IN IF f = None THEN None ELSE Some(f[1][2])

De_AgentOutput(j) ==
    IF j[1] = "obj" /\ HasField(j[2], "content", "str") /\ HasField(j[2], "usage", "obj")
       /\ IsOk(De_Usage(j[2].usage))
    THEN Ok([content |-> j[2].content[2],
             usage |-> De_Usage(j[2].usage)[2],
             thread |-> OptionStr(j[2], "thread"),
             failed_reason |-> OptionStr(j[2], "failed_reason"),
             tool_calls |-> OptionToolCalls(j[2], "tool_calls"),
             full_history |-> OptionValues(j[2], "full_history"),
             resources |-> OptionResources(j[2], "resources")])
    ELSE Err

(***************************************************************************)
(* ToolInput<T> (mod.rs 91-119), with T = String                           *)
(***************************************************************************)
\* ToolInput::new(name, args)
ToolInput_new(name, args) ==
    [name |-> name, args |-> args, resources |-> None, meta |-> None]

Ser_ToolInput(t) ==
    JObj(Emit("name", JStr(t.name))
         @@ Emit("args", JStr(t.args))
         @@ SkipIfNone("resources", t.resources, Ser_Resources(t.resources[1]))
         @@ SkipIfNone("meta", t.meta, Ser_RequestMeta(t.meta[1])))

De_ToolInput(j) ==
    IF j[1] = "obj" /\ HasField(j[2], "name", "str") /\ HasField(j[2], "args", "str")
    THEN Ok([name |-> j[2].name[2], args |-> j[2].args[2],
             resources |-> OptionResources(j[2], "resources"),
             meta |-> OptionMeta(j[2], "meta")])
    ELSE Err

(***************************************************************************)
(* FunctionDefinition (mod.rs 213-236)                                     *)
(***************************************************************************)
\* Mutant: the prefix is appended after the name.
name_with_prefix_appends(self, prefix) == [self EXCEPT !.name = self.name \o prefix]

\* FunctionDefinition::name_with_prefix(self, prefix):
\* self.name = format!("{}{}", prefix, self.name)
name_with_prefix(self, prefix) == [self EXCEPT !.name = prefix \o self.name]

Ser_FunctionDefinition(f) ==
    JObj(Emit("name", JStr(f.name))
         @@ Emit("description", JStr(f.description))
         @@ Emit("parameters", f.parameters)
         @@ SkipIfNone("strict", f.strict, JBool(f.strict[1])))

De_FunctionDefinition(j) ==
    IF j[1] = "obj" /\ HasField(j[2], "name", "str")
       /\ HasField(j[2], "description", "str") /\ "parameters" \in DOMAIN j[2]
    THEN Ok([name |-> j[2].name[2], description |-> j[2].description[2],
             parameters |-> j[2].parameters,
             strict |-> LET f == OptionField(j[2], "strict")
                        IN  IF f = None THEN None ELSE Some(f[1][2])])
    ELSE Err

(***************************************************************************)
(* The seven serialized types, by name                                     *)
(***************************************************************************)
EnvelopeTypes ==
    {"AgentInput", "AgentOutput", "ToolInput", "ToolOutput",
     "RequestMeta", "ToolCall", "FunctionDefinition"}

\* serde_json::to_value(&v)
Serialize(type, v) ==
    CASE type = "AgentInput"         -> Ser_AgentInput(v)
      [] type = "AgentOutput"        -> Ser_AgentOutput(v)
      [] type = "ToolInput"          -> Ser_ToolInput(v)
      [] type = "ToolOutput"         -> Ser_ToolOutput(v)
      [] type = "RequestMeta"        -> Ser_RequestMeta(v)
      [] type = "ToolCall"           -> Ser_ToolCall(v)
      [] type = "FunctionDefinition" -> Ser_FunctionDefinition(v)

\* serde_json::from_value::<type>(j)
Deserialize(type, j) ==
    CASE type = "AgentInput"         -> De_AgentInput(j)
      [] type = "AgentOutput"        -> De_AgentOutput(j)
      [] type = "ToolInput"          -> De_ToolInput(j)
      [] type = "ToolOutput"         -> De_ToolOutput(j)
      [] type = "RequestMeta"        -> De_RequestMeta(j)
      [] type = "ToolCall"           -> De_ToolCall(j)
      [] type = "FunctionDefinition" -> De_FunctionDefinition(j)

\* The fields of each type declared Option<_>.
OptionalFields(type) ==
    CASE type = "AgentInput"         -> {"resources", "meta"}
      [] type = "AgentOutput"        -> {"thread", "failed_reason", "tool_calls",
                                         "full_history", "resources"}
      [] type = "ToolInput"          -> {"resources", "meta"}
      [] type = "ToolOutput"         -> {"resources"}
      [] type = "RequestMeta"        -> {"engine", "thread", "user"}
      [] type = "ToolCall"           -> {"result"}
      [] type = "FunctionDefinition" -> {"strict"}

(***************************************************************************)
(* Bounds and input sets of the engine run                                 *)
(***************************************************************************)
MaxCalls == 3

ToolNames == {"search", "fetch"}

\* What a tool accounts for: nothing, a small call,
\* and a call so large that one more of any kind reaches the maximum of a
\* counter and two of them overflow it.
ToolUsages ==
    { Usage_default,
      [input_tokens |-> 1, output_tokens |-> 1, requests |-> 1],
      [input_tokens |-> U64_MAX - 1, output_tokens |-> U64_MAX, requests |-> 2] }


(***************************************************************************)
(* State                                                                   *)
(***************************************************************************)
VARIABLES
    ua, ub,      \* two Usage values a and b
    uab, uba,    \* a clone of a (then a.accumulate(&b)), a clone of b (then b.accumulate(&a))
    accDone,     \* which of the two accumulate calls have run
    tool_calls,  \* AgentOutput.tool_calls: the ToolCall records of one agent response
    phase,       \* per call: "Requested", "Dispatched", "Completed" or "Failed"
    outs,        \* per call: the ToolOutput the tool returned, if it returned one
    subs,        \* per call: its usage ledger while not yet merged
    ledger,      \* the shared running Usage ledger
    env_type,    \* the type of the value under construction, "none" before
    env,         \* the value
    built_by,    \* "new" (a construction helper), "literal", or "none"
    new_args,    \* the arguments the construction helper was given
    wire,        \* Option: the value serialized
    decoded,     \* Option: the wire form deserialized (a Result)
    fn_orig,     \* a FunctionDefinition as declared
    fn_def,      \* the same after the prefixes were applied
    fn_prefixes  \* the prefixes applied so far, in order

accVars == <<ua, ub, uab, uba, accDone>>

engVars == <<tool_calls, phase, outs, subs, ledger>>

envVars == <<env_type, env, built_by, new_args, wire, decoded>>

fnVars == <<fn_orig, fn_def, fn_prefixes>>

vars == <<accVars, engVars, envVars, fnVars>>

CallId(n) == "call_" \o ToString(n)

(***************************************************************************)
(* Input sets of the envelope and function-declaration runs                *)
(***************************************************************************)
MaxPrefixes == 3

AgentNames == {"", "agent", "search"}

Prompts == {"", "hi"}

ToolArgs == {"{}", "{\"q\":1}"}

ToolResults == {"ok", ""}

Prefixes == {"", "a_", "b_", "ns_"}

OptResources == {None, Some(<<"res_1">>)}

RequestMetaSamples ==
    [engine : {None, Some(ANONYMOUS), Some("aaaaa-aa")},
     thread : {None, Some("thread_1")},
     user   : {None, Some("alice")}]

OptMeta == {None, Some(RequestMeta_default),
            Some([engine |-> Some(ANONYMOUS), thread |-> Some("thread_1"), user |-> None])}

ToolCallSamples ==
    {ToolCall_default}
    \cup [id : {"call_1"}, name : {"search"}, args : ToolArgs,
          result : {None, Some(JStr("ok")), Some(JNull)}]

FunctionDefinitionSamples ==
    [name : {"x", "search"}, description : {"d"},
     parameters : {JNull, JObj([type |-> JStr("object")])},
     strict : {None, Some(TRUE), Some(FALSE)}]

AgentOutputSamples ==
    [content : {"", "done"},
     usage : {Usage_default, [input_tokens |-> 2, output_tokens |-> 1, requests |-> 1]},
     thread : {None, Some("thread_1")},
     failed_reason : {None, Some("boom")},
     tool_calls : {None, Some(<<ToolCall_requested("call_1", "search", "{}")>>)},
     full_history : {None, Some(<<JStr("h")>>)},
     resources : OptResources]

\* Values of each type as a caller may build them with a struct literal.
Samples(type) ==
    CASE type = "AgentInput"         ->
            [name : AgentNames, prompt : {"hi"}, resources : OptResources, meta : OptMeta]
      [] type = "AgentOutput"        -> AgentOutputSamples
      [] type = "ToolInput"          ->
            [name : {"search"}, args : ToolArgs, resources : OptResources, meta : OptMeta]
      [] type = "ToolOutput"         ->
            [output : ToolResults, resources : OptResources,
             usage : {Usage_default, [Usage_default EXCEPT !.requests = 1]}]
      [] type = "RequestMeta"        -> RequestMetaSamples
      [] type = "ToolCall"           -> ToolCallSamples
      [] type = "FunctionDefinition" -> FunctionDefinitionSamples

Calls == 1..Len(tool_calls)

RECURSIVE AccumulateAll(_, _, _)
\* The outputs' usages accumulated one by one, in list order, into `acc`.
AccumulateAll(acc, os, i) ==
    IF i > Len(os) THEN acc
    ELSE AccumulateAll(IF os[i] = None THEN acc ELSE accumulate(acc, os[i][1].usage),
                       os, i + 1)

\* The variables of a part of the model that a specification does not exercise.
AccIdle ==
    /\ ua = Usage_default /\ ub = Usage_default
    /\ uab = Usage_default /\ uba = Usage_default
    /\ accDone = {}

EngIdle ==
    /\ tool_calls = <<>> /\ phase = <<>> /\ outs = <<>> /\ subs = <<>>
    /\ ledger = Usage_default

EnvIdle ==
    /\ env_type = "none" /\ env = None /\ built_by = "none" /\ new_args = <<>>
    /\ wire = None /\ decoded = None

FnIdle ==
    /\ fn_orig = None /\ fn_def = None /\ fn_prefixes = <<>>

(***************************************************************************)
(* Accumulation of one pair of Usage values, in both directions.           *)
(***************************************************************************)
AccInit ==
    /\ ua \in UsageSet
    /\ ub \in UsageSet
    /\ uab = ua
    /\ uba = ub
    /\ accDone = {}
    /\ EngIdle /\ EnvIdle /\ FnIdle

\* let mut x = a.clone(); x.accumulate(&b);
AccumulateAB ==
    /\ "ab" \notin accDone
    /\ uab' = accumulate(uab, ub)
    /\ accDone' = accDone \cup {"ab"}
    /\ UNCHANGED <<ua, ub, uba, engVars, envVars, fnVars>>

\* let mut y = b.clone(); y.accumulate(&a);
AccumulateBA ==
    /\ "ba" \notin accDone
    /\ uba' = accumulate(uba, ua)
    /\ accDone' = accDone \cup {"ba"}
    /\ UNCHANGED <<ua, ub, uab, engVars, envVars, fnVars>>

AccNext == AccumulateAB \/ AccumulateBA

SpecAccumulate == AccInit /\ [][AccNext]_vars

(***************************************************************************)
(* C1: accumulate sets every counter to min(self.field + other.field,      *)
(* u64::MAX), each from its own two operands only: it never wraps.         *)
(***************************************************************************)
C1_SaturatingPerField ==
    "ab" \in accDone =>
        /\ uab.input_tokens  = Min(ua.input_tokens + ub.input_tokens, U64_MAX)
        /\ uab.output_tokens = Min(ua.output_tokens + ub.output_tokens, U64_MAX)
        /\ uab.requests      = Min(ua.requests + ub.requests, U64_MAX)
        /\ uab \in UsageSet

\* u64::MAX input_tokens accumulating 1: the counter stays at the maximum
\* while the other two counters add normally.
C1_Witness ==
    /\ "ab" \in accDone
    /\ ua.input_tokens = U64_MAX /\ ub.input_tokens = 1
    /\ uab.input_tokens = U64_MAX
    /\ ua.requests = 1 /\ ub.requests = 1 /\ uab.requests = 2

(***************************************************************************)
(* C2: accumulate is commutative: a.accumulate(&b) and b.accumulate(&a)    *)
(* end with the same three counters.                                       *)
(***************************************************************************)
C2_Commutative ==
    accDone = {"ab", "ba"} => uab = uba

C2_Witness ==
    /\ accDone = {"ab", "ba"}
    /\ ua # ub
    /\ ua.output_tokens + ub.output_tokens > U64_MAX
    /\ ua.requests + ub.requests < U64_MAX
    /\ ub.requests > 0

(***************************************************************************)
(* C4: the zero Usage is the identity of accumulate, on either side.       *)
(***************************************************************************)
C4_ZeroIdentity ==
    ub = Usage_default =>
        /\ ("ab" \in accDone => uab = ua)
        /\ ("ba" \in accDone => uba = ua)

C4_Witness ==
    /\ ub = Usage_default
    /\ accDone = {"ab", "ba"}
    /\ ua.input_tokens = U64_MAX /\ ua.requests = 1

(***************************************************************************)
(* One agent response and its tool calls: the calls are requested,         *)
(* dispatched and resolved in any interleaving, and the usage of the       *)
(* outputs is merged by a serialized aggregator, one merge at a time.      *)
(***************************************************************************)
Init ==
    /\ tool_calls = <<>>
    /\ phase = <<>>
    /\ outs = <<>>
    /\ subs = <<>>
    /\ ledger = Usage_default
    /\ AccIdle /\ EnvIdle /\ FnIdle

\* The model requests a function call: a ToolCall record is appended to
\* the response, with an id unique within it.  The response is complete
\* before the engine dispatches its first call.
RequestCall(name) ==
    /\ Len(tool_calls) < MaxCalls
    /\ \A i \in Calls : phase[i] = "Requested"
    /\ tool_calls' = Append(tool_calls,
                            ToolCall_requested(CallId(Len(tool_calls) + 1), name, "{}"))
    /\ phase' = Append(phase, "Requested")
    /\ outs' = Append(outs, None)
    /\ subs' = Append(subs, None)
    /\ UNCHANGED <<ledger, accVars, envVars, fnVars>>

\* The call is handed to the named tool.
Dispatch(i) ==
    /\ phase[i] = "Requested"
    /\ phase' = [phase EXCEPT ![i] = "Dispatched"]
    /\ UNCHANGED <<tool_calls, outs, subs, ledger, accVars, envVars, fnVars>>

\* The tool returns: it builds its output with ToolOutput::new, records
\* the usage u it accounts for, and the dispatcher stores the output, as a
\* JSON value, in the call's result slot.
Complete(i, u) ==
    /\ phase[i] = "Dispatched"
    /\ LET fresh == ToolOutput_new("ok")
           out   == [fresh EXCEPT !.usage = accumulate(fresh.usage, u)]
       IN  /\ outs' = [outs EXCEPT ![i] = Some(out)]
           /\ subs' = [subs EXCEPT ![i] = Some(out.usage)]
           /\ tool_calls' = [tool_calls EXCEPT
                                ![i] = ToolCall_set_result(tool_calls[i], JStr(out.output))]
    /\ phase' = [phase EXCEPT ![i] = "Completed"]
    /\ UNCHANGED <<ledger, accVars, envVars, fnVars>>

\* The tool call fails: by convention the result slot holds an
\* error-shaped payload; no output envelope exists.
Fail(i) ==
    /\ phase[i] = "Dispatched"
    /\ tool_calls' = [tool_calls EXCEPT
                         ![i] = ToolCall_set_result(tool_calls[i], JStr("error"))]
    /\ phase' = [phase EXCEPT ![i] = "Failed"]
    /\ UNCHANGED <<outs, subs, ledger, accVars, envVars, fnVars>>

\* ledger.accumulate(&usage of call i)
MergeIntoLedger(i) ==
    /\ subs[i] # None
    /\ ledger' = accumulate(ledger, subs[i][1])
    /\ subs' = [subs EXCEPT ![i] = None]
    /\ UNCHANGED <<tool_calls, phase, outs, accVars, envVars, fnVars>>

\* Two per-call ledgers are merged first: sub_i.accumulate(&sub_j)
MergeSubLedgers(i, j) ==
    /\ i # j
    /\ subs[i] # None
    /\ subs[j] # None
    /\ subs' = [subs EXCEPT ![i] = Some(accumulate(subs[i][1], subs[j][1])),
                            ![j] = None]
    /\ UNCHANGED <<tool_calls, phase, outs, ledger, accVars, envVars, fnVars>>

Next ==
    \/ \E name \in ToolNames : RequestCall(name)
    \/ \E i \in Calls : Dispatch(i)
    \/ \E i \in Calls, u \in ToolUsages : Complete(i, u)
    \/ \E i \in Calls : Fail(i)
    \/ \E i \in Calls : MergeIntoLedger(i)
    \/ \E i, j \in Calls : MergeSubLedgers(i, j)

Spec == Init /\ [][Next]_vars

\* Every requested call is resolved and every usage has reached the ledger.
AllMerged ==
    /\ Len(tool_calls) >= 1
    /\ \A i \in Calls : phase[i] \in {"Completed", "Failed"} /\ subs[i] = None

(***************************************************************************)
(* C3: the final totals do not depend on the order in which the calls      *)
(* completed and were merged, nor on the grouping into sub-ledgers: they   *)
(* are the totals of accumulating the outputs one by one in list order.    *)
(***************************************************************************)
C3_OrderAndGroupingIndependent ==
    AllMerged => ledger = AccumulateAll(Usage_default, outs, 1)

\* Three outputs were merged and a counter saturated on the way.
C3_Witness ==
    /\ AllMerged
    /\ Len(tool_calls) = 3
    /\ \A i \in Calls : phase[i] = "Completed" /\ outs[i][1].usage # Usage_default
    /\ outs[1][1].usage # outs[2][1].usage /\ outs[2][1].usage # outs[3][1].usage
    /\ ledger.input_tokens = U64_MAX
    /\ ledger.requests < U64_MAX

(***************************************************************************)
(* C9: no step lowers a counter of the shared ledger, and a counter that   *)
(* has reached u64::MAX stays there.                                       *)
(***************************************************************************)
C9_LedgerMonotonic ==
    [][ /\ ledger'.input_tokens  >= ledger.input_tokens
        /\ ledger'.output_tokens >= ledger.output_tokens
        /\ ledger'.requests      >= ledger.requests
        /\ ledger' \in UsageSet ]_vars

\* Two usages were merged and brought a counter to the maximum; a third,
\* with more input tokens, is still to be merged.
C9_Witness ==
    /\ Len(tool_calls) = 3
    /\ ledger.input_tokens = U64_MAX
    /\ ledger.requests > 1
    /\ \E i \in Calls : subs[i] # None /\ subs[i][1].input_tokens > 0

(***************************************************************************)
(* C10: a call's result is empty exactly while the call is Requested or    *)
(* Dispatched, is set when the call completes or fails, and is then never  *)
(* changed or cleared; id, name and args never change.                     *)
(***************************************************************************)
C10_ResultSetOnce ==
    /\ [](\A i \in Calls :
            /\ phase[i] \in {"Requested", "Dispatched", "Completed", "Failed"}
            /\ (tool_calls[i].result = None <=> phase[i] \in {"Requested", "Dispatched"}))
    /\ [][\A i \in Calls :
            /\ tool_calls'[i].id = tool_calls[i].id
            /\ tool_calls'[i].name = tool_calls[i].name
            /\ tool_calls'[i].args = tool_calls[i].args
            /\ (tool_calls[i].result # None =>
                    tool_calls'[i].result = tool_calls[i].result)
            /\ (phase[i] \in {"Completed", "Failed"} => phase'[i] = phase[i])]_vars

\* One call completed, one failed, one is still unresolved.
C10_Witness ==
    /\ Len(tool_calls) = 3
    /\ \E i, j, k \in Calls :
        /\ phase[i] = "Completed" /\ tool_calls[i].result = Some(JStr("ok"))
        /\ phase[j] = "Failed" /\ tool_calls[j].result = Some(JStr("error"))
        /\ phase[k] = "Dispatched" /\ tool_calls[k].result = None
        /\ tool_calls[i].id = CallId(i)

(***************************************************************************)
(* Envelopes: a value is built, by a construction helper or by a struct    *)
(* literal, then serialized, then the wire form is deserialized.           *)
(***************************************************************************)
EnvInit ==
    /\ env_type = "none"
    /\ env = None
    /\ built_by = "none"
    /\ new_args = <<>>
    /\ wire = None
    /\ decoded = None
    /\ AccIdle /\ EngIdle /\ FnIdle

New_AgentInput(name, prompt) ==
    /\ env_type = "none"
    /\ env' = AgentInput_new(name, prompt)
    /\ env_type' = "AgentInput"
    /\ built_by' = "new"
    /\ new_args' = <<name, prompt>>
    /\ UNCHANGED <<wire, decoded, accVars, engVars, fnVars>>

New_ToolInput(name, args) ==
    /\ env_type = "none"
    /\ env' = ToolInput_new(name, args)
    /\ env_type' = "ToolInput"
    /\ built_by' = "new"
    /\ new_args' = <<name, args>>
    /\ UNCHANGED <<wire, decoded, accVars, engVars, fnVars>>

New_ToolOutput(output) ==
    /\ env_type = "none"
    /\ env' = ToolOutput_new(output)
    /\ env_type' = "ToolOutput"
    /\ built_by' = "new"
    /\ new_args' = <<output>>
    /\ UNCHANGED <<wire, decoded, accVars, engVars, fnVars>>

\* A struct literal; the fields are public.
Literal(type, v) ==
    /\ env_type = "none"
    /\ env' = v
    /\ env_type' = type
    /\ built_by' = "literal"
    /\ UNCHANGED <<new_args, wire, decoded, accVars, engVars, fnVars>>

SerializeEnv ==
    /\ env_type # "none"
    /\ wire = None
    /\ wire' = Some(Serialize(env_type, env))
    /\ UNCHANGED <<env_type, env, built_by, new_args, decoded, accVars, engVars, fnVars>>

DeserializeWire ==
    /\ wire # None
    /\ decoded = None
    /\ decoded' = Some(Deserialize(env_type, wire[1]))
    /\ UNCHANGED <<env_type, env, built_by, new_args, wire, accVars, engVars, fnVars>>

EnvNext ==
    \/ \E name \in AgentNames, prompt \in Prompts : New_AgentInput(name, prompt)
    \/ \E name \in AgentNames, args \in ToolArgs : New_ToolInput(name, args)
    \/ \E output \in ToolResults : New_ToolOutput(output)
    \/ \E type \in EnvelopeTypes : \E v \in Samples(type) : Literal(type, v)
    \/ SerializeEnv
    \/ DeserializeWire

SpecEnvelope == EnvInit /\ [][EnvNext]_vars

(***************************************************************************)
(* C6: a construction helper stores exactly its arguments in the required  *)
(* fields and leaves every optional field None; ToolOutput::new leaves     *)
(* usage at Usage::default(), all three counters zero.  An empty name is   *)
(* stored as given.                                                        *)
(***************************************************************************)
C6_NewLeavesOptionalsEmpty ==
    built_by = "new" =>
        /\ env_type \in {"AgentInput", "ToolInput", "ToolOutput"}
        /\ env_type = "AgentInput" =>
              /\ env.name = new_args[1] /\ env.prompt = new_args[2]
              /\ env.resources = None /\ env.meta = None
        /\ env_type = "ToolInput" =>
              /\ env.name = new_args[1] /\ env.args = new_args[2]
              /\ env.resources = None /\ env.meta = None
        /\ env_type = "ToolOutput" =>
              /\ env.output = new_args[1]
              /\ env.resources = None
              /\ env.usage = Usage_default
              /\ env.usage.input_tokens = 0 /\ env.usage.output_tokens = 0
              /\ env.usage.requests = 0

\* AgentInput::new("", "hi"): the empty name is accepted.
C6_Witness ==
    /\ built_by = "new"
    /\ env_type = "AgentInput"
    /\ new_args = <<"", "hi">>
    /\ env.name = "" /\ env.prompt = "hi"

(***************************************************************************)
(* C7 as stated: a value of any of the seven types whose optional fields   *)
(* are all None serializes to an object holding none of the optional       *)
(* fields as a key, and that object deserializes to the original value.    *)
(***************************************************************************)
C7_AbsentOptionalsOmitted ==
    (/\ wire # None
     /\ \A k \in OptionalFields(env_type) : env[k] = None)
    => /\ OptionalFields(env_type) \cap DOMAIN wire[1][2] = {}
       /\ (decoded # None => decoded[1] = Ok(env))

FnInit ==
    /\ fn_orig \in FunctionDefinitionSamples
    /\ fn_def = fn_orig
    /\ fn_prefixes = <<>>
    /\ AccIdle /\ EngIdle /\ EnvIdle

NameWithPrefix(prefix) ==
    /\ Len(fn_prefixes) < MaxPrefixes
    /\ fn_def' = name_with_prefix(fn_def, prefix)
    /\ fn_prefixes' = Append(fn_prefixes, prefix)
    /\ UNCHANGED <<fn_orig, accVars, engVars, envVars>>

FnNext == \E prefix \in Prefixes : NameWithPrefix(prefix)

SpecFunction == FnInit /\ [][FnNext]_vars

RECURSIVE PrefixedName(_, _)
\* p_n ++ ... ++ p_1 ++ name: the last prefix applied stands first.
PrefixedName(ps, name) ==
    IF ps = <<>> THEN name
    ELSE ps[Len(ps)] \o PrefixedName(SubSeq(ps, 1, Len(ps) - 1), name)

(***************************************************************************)
(* C5: name_with_prefix puts the prefix before the name and changes no     *)
(* other field; a second prefix goes before the first ("a_" then "b_" on   *)
(* "x" gives "b_a_x"); the empty prefix changes nothing.                   *)
(***************************************************************************)
C5_PrefixComposes ==
    /\ fn_def.name = PrefixedName(fn_prefixes, fn_orig.name)
    /\ fn_def.description = fn_orig.description
    /\ fn_def.parameters = fn_orig.parameters
    /\ fn_def.strict = fn_orig.strict
    /\ (fn_orig.name = "search" /\ fn_prefixes = <<"ns_">> => fn_def.name = "ns_search")
    /\ (fn_orig.name = "x" /\ fn_prefixes = <<"a_", "b_">> => fn_def.name = "b_a_x")
    /\ (fn_prefixes = <<"">> => fn_def = fn_orig)

C5_Witness ==
    /\ fn_orig.name = "x"
    /\ fn_orig.strict = Some(TRUE)
    /\ fn_prefixes = <<"a_", "b_">>
    /\ fn_def.name = "b_a_x"

====
